---- MODULE Spec2Model ----
(***************************************************************************)
(* urdf2ply/main.py: a URDF robot model is converted into coloured point   *)
(* clouds, one PLY file per visual and one combined robot_complete.ply.    *)
(*                                                                         *)
(* The run of main() is modelled step by step (load the model, load the    *)
(* CSV colours, set the joint configuration, one step per iteration of the *)
(* link/visual loop, the final combination).  The contents of the model    *)
(* and of the file system are inputs: the link map is drawn in Init, what  *)
(* each visual holds and what the libraries answer is drawn when the loop  *)
(* reaches it.                                                             *)
(*                                                                         *)
(* Numbers: a CSV channel value is the rational <<n, d>>; a 4x4 matrix is  *)
(* a tuple of four rows of integers; a colour is <<r, g, b>>.  None is the *)
(* empty tuple.                                                            *)
(***************************************************************************)
EXTENDS Integers, Sequences, FiniteSets, TLC

VARIABLES
    pc,             \* position of main(): "start", "csv", "cfg", "loop", "done", "aborted", "crashed"
    COLOR_MODE,     \* the colour mode the program was configured with
    hashSecret,     \* the interpreter's per-process string-hash secret
    link_map,       \* robot.link_map: sequence of [name, nvis], names unique
    csv_file,       \* the CSV file on disk
    csv_colors,     \* the table load_colors_from_csv returned (None before)
    li, vi,         \* loop position: link index (1-based), visual index (0-based)
    files,          \* output directory: file name -> [rows, rgb, by]
    all_points,     \* accumulation buffer of point blocks
    all_colors,     \* accumulation buffer of colour blocks
    cur,            \* the visual being transformed and the locals of lines 137-157
    visited,        \* every visual the loop finished: [link, idx, file written, appended]
    combined,       \* <<>>, or <<rows>> once line 201 exported the combined cloud
    log,            \* the lines printed outside the loop, by tag
    console,        \* the line the loop printed last
    uncaught,       \* the exception that ended the run, "" when none
    calls,          \* harness: first colour get_color_for_link returned per link name
    ret,            \* harness: <<>> or <<[name, color]>>, the last call
    procs           \* harness: processes started so far

vars == <<pc, COLOR_MODE, hashSecret, link_map, csv_file, csv_colors, li, vi, files,
          all_points, all_colors, cur, visited, combined, log, console, uncaught,
          calls, ret, procs>>

runVars == <<pc, link_map, li, vi, files, all_points, all_colors, visited,
             combined, log, console, uncaught>>

harnessVars == <<calls, ret, procs>>

-----------------------------------------------------------------------------
(* Bounds of the model *)

MaxLinks == 2
MaxVisuals == 2
MaxRows == 2
MaxProcs == 2

(* Program constants *)

POINT_SAMPLES == 50000
CfgLen == 6

None == <<>>

Modes == {"custom", "csv", "random", "plain"}

GRAY == <<150, 150, 150>>
SILVER == <<192, 192, 192>>

CUSTOM_COLORS ==
    ("base_link" :> <<100, 100, 100>>) @@ ("L1" :> <<255, 100, 100>>) @@
    ("L2" :> <<100, 255, 100>>) @@ ("L3" :> <<100, 100, 255>>) @@
    ("L4" :> <<255, 255, 100>>) @@ ("L5" :> <<255, 100, 255>>) @@
    ("L6" :> <<100, 255, 255>>)

(* The link names the models are built from, in document order. *)
LinkNames == <<"L1", "L1_0", "robot_complete">>

NameSet == {LinkNames[i] : i \in 1..Len(LinkNames)}

EmptyMap == [n \in {} |-> None]

-----------------------------------------------------------------------------
(* load_colors_from_csv *)

(* float(text) * 255 for a channel text holding the rational n/d *)
Scale255(v) == <<v[1] * 255, v[2]>>

(* the float -> uint8 conversion of np.array(..., dtype=np.uint8): the     *)
(* fraction is dropped                                                     *)
AsUint8(q) == (q[1] \div q[2]) % 256

(* float(text) accepts a numeral <<n, d>> and raises ValueError on any    *)
(* other text, written <<>>                                                *)
Parsable(text) == Len(text) = 2

RowRaises(f, row) ==
    \/ ~f.header
    \/ ~Parsable(row.r) \/ ~Parsable(row.g) \/ ~Parsable(row.b)

RowColor(row) ==
    <<AsUint8(Scale255(row.r)), AsUint8(Scale255(row.g)), AsUint8(Scale255(row.b))>>

RECURSIVE LoadRows(_, _, _)
LoadRows(f, i, colors) ==
    IF i > Len(f.rows) THEN [colors |-> colors, warn |-> FALSE]
    ELSE IF RowRaises(f, f.rows[i]) THEN [colors |-> colors, warn |-> TRUE]
    ELSE LoadRows(f, i + 1,
                  [n \in DOMAIN colors \cup {f.rows[i].name} |->
                      IF n = f.rows[i].name THEN RowColor(f.rows[i]) ELSE colors[n]])

load_colors_from_csv(f) ==
    IF ~f.exists THEN [colors |-> EmptyMap, warn |-> TRUE]
    ELSE LoadRows(f, 1, EmptyMap)

-----------------------------------------------------------------------------
(* get_color_for_link *)

(* A number standing for the characters of a link name. *)
NameCode == ("L1" :> 19505) @@ ("L1_0" :> 24368) @@ ("robot_complete" :> 29295)

(* hash(str): a signed word; CPython keys the string hash with a secret    *)
(* drawn when the process starts (secret 0 is PYTHONHASHSEED=0).           *)
StrHash(s, secret) == ((NameCode[s] * 31 + secret * 7919) % (2 ^ 20)) - (2 ^ 19)

(* 2**32 of line 58, narrowed to the integers TLC has *)
SeedSpace == 2 ^ 16

(* np.random.seed(seed); np.random.randint(50, 256, size=3): three channel *)
(* values in 50..255 that the seed determines                              *)
RandInt3(seed) ==
    <<50 + (seed % 206), 50 + ((seed \div 206) % 206), 50 + ((seed \div 7) % 206)>>

(* the truth value of a dict: None and {} are both false *)
Truthy(table) == DOMAIN table # {}

get_color_for_link(mode, secret, link_name, table) ==
    IF mode = "csv" THEN
        IF Truthy(table) /\ link_name \in DOMAIN table
        THEN table[link_name] ELSE GRAY
    ELSE IF mode = "custom" THEN
        IF link_name \in DOMAIN CUSTOM_COLORS THEN CUSTOM_COLORS[link_name] ELSE GRAY
    ELSE IF mode = "random" THEN RandInt3(StrHash(link_name, secret) % SeedSpace)
    ELSE SILVER

-----------------------------------------------------------------------------
(* The transform of a visual, lines 137-151 *)

Eye4 == <<<<1, 0, 0, 0>>, <<0, 1, 0, 0>>, <<0, 0, 1, 0>>, <<0, 0, 0, 1>>>>

(* A @ B *)
MatMul(A, B) ==
    [i \in 1..4 |-> [j \in 1..4 |->
        A[i][1] * B[1][j] + A[i][2] * B[2][j] + A[i][3] * B[3][j] + A[i][4] * B[4][j]]]

(* scale_matrix = np.eye(4); scale_matrix[:3, :3] *= scale: the 3-vector   *)
(* is broadcast along the rows, so column j is multiplied by scale[j]      *)
ScaleMatrix(scale) ==
    [i \in 1..4 |-> [j \in 1..4 |->
        IF i <= 3 /\ j <= 3 THEN Eye4[i][j] * scale[j] ELSE Eye4[i][j]]]

(* the composition with the scale on the left, S . L . V *)
ScaleFirst(link_transform, origin, scale) ==
    LET scaled == IF scale # None
                  THEN MatMul(ScaleMatrix(scale), link_transform)
                  ELSE link_transform
    IN  IF origin # None THEN MatMul(scaled, origin) ELSE scaled

CombinedTransform(link_transform, origin, scale) ==
    LET placed == IF origin # None
                  THEN MatMul(link_transform, origin)
                  ELSE link_transform
    IN  IF scale # None THEN MatMul(placed, ScaleMatrix(scale)) ELSE placed

(* robot.get_transform(link_name): the world pose of each link of the      *)
(* models, a rotation and a translation                                    *)
RotZ == <<<<0, -1, 0, 2>>, <<1, 0, 0, 0>>, <<0, 0, 1, 1>>, <<0, 0, 0, 1>>>>
RotX == <<<<1, 0, 0, 0>>, <<0, 0, -1, 3>>, <<0, 1, 0, 0>>, <<0, 0, 0, 1>>>>
RotY == <<<<0, 0, 1, 1>>, <<0, 1, 0, 1>>, <<-1, 0, 0, 4>>, <<0, 0, 0, 1>>>>

get_transform(link_name) ==
    IF link_name = "L1" THEN RotZ
    ELSE IF link_name = "L1_0" THEN MatMul(RotZ, RotX)
    ELSE Eye4

(* What a visual of the models may hold: its origin, its mesh scale and    *)
(* the vertices of its mesh.                                               *)
Origins == {None, RotY, RotX}
Scales == {None, <<2, 3, 5>>, <<1, 1, 1>>, <<-1, 2, 2>>}
Meshes == {<<<<1, 0, 0>>, <<0, 1, 0>>, <<0, 0, 1>>>>,
           <<<<1, 2, 3>>, <<-1, 0, 2>>, <<4, 4, -1>>>>}

(* mesh.copy() and apply_transform(matrix): every vertex v becomes the     *)
(* first three entries of matrix . (v, 1)                                  *)
apply_transform(mesh, matrix) ==
    [k \in DOMAIN mesh |-> [i \in 1..3 |->
        matrix[i][1] * mesh[k][1] + matrix[i][2] * mesh[k][2]
            + matrix[i][3] * mesh[k][3] + matrix[i][4]]]

-----------------------------------------------------------------------------
(* The output of one visual, lines 165-175 *)

(* mesh_transformed.sample(count): count rows *)
sample(count) == count

(* a tiling one row short *)
TileShort(link_color, n) == [rgb |-> link_color, rows |-> n - 1]

(* np.tile(link_color, (n, 1)): n rows of the one colour *)
tile(link_color, n) == [rgb |-> link_color, rows |-> n]

output_filename(link_name, idx, nvis) ==
    IF nvis > 1 THEN link_name \o "_" \o ToString(idx) \o ".ply"
    ELSE link_name \o ".ply"

COMBINED_NAME == "robot_complete.ply"

(* dict assignment / a file written over whatever held the name *)
Put(f, k, v) == [x \in DOMAIN f \cup {k} |-> IF x = k THEN v ELSE f[x]]

-----------------------------------------------------------------------------
(* Inputs *)

(* robot.link_map: up to MaxLinks links with unique names, each with up to *)
(* MaxVisuals visuals                                                      *)
(* the names of a model: some of LinkNames, in document order *)
NameSeqs ==
    {[i \in DOMAIN ix |-> LinkNames[ix[i]]] :
        ix \in {s \in UNION {[1..n -> DOMAIN LinkNames] : n \in 0..MaxLinks} :
                    \A i, j \in DOMAIN s : i < j => s[i] < s[j]}}

LinkMaps ==
    UNION {{[i \in DOMAIN s |-> [name |-> s[i], nvis |-> k[i]]] :
                k \in [DOMAIN s -> 0..MaxVisuals]} : s \in NameSeqs}

(* The rows a CSV file may hold. *)
CsvRows ==
    {[name |-> "L1", r |-> <<999, 1000>>, g |-> <<1, 2>>, b |-> <<0, 1>>],
     [name |-> "L1_0", r |-> <<1, 1>>, g |-> <<1, 5>>, b |-> <<2, 3>>],
     [name |-> "L1", r |-> <<1, 4>>, g |-> <<>>, b |-> <<1, 1>>]}

NoCsv == [exists |-> FALSE, header |-> FALSE, rows |-> <<>>]

CsvFiles ==
    {NoCsv} \cup
    {[exists |-> TRUE, header |-> h, rows |-> rows] :
        h \in BOOLEAN, rows \in UNION {[1..n -> CsvRows] : n \in 0..MaxRows}}

(* The CSV files of the runs of main(): missing, complete, and with a row  *)
(* that does not parse after one that does                                 *)
RunCsvFiles ==
    {f \in CsvFiles :
        /\ f.exists => f.header /\ Len(f.rows) \in 1..2
        /\ \A i \in DOMAIN f.rows : f.rows[i].name = "L1"
        /\ Len(f.rows) >= 1 => Parsable(f.rows[1].g)
        /\ Len(f.rows) >= 2 => ~Parsable(f.rows[2].g)}

HashSecrets == {0, 1}

(* The joints of a model: all of them, and the actuated ones. *)
JointCounts ==
    {[all |-> 0, actuated |-> 0], [all |-> 6, actuated |-> 6],
     [all |-> 6, actuated |-> 3], [all |-> 7, actuated |-> 6],
     [all |-> 3, actuated |-> 3], [all |-> 7, actuated |-> 7]}

-----------------------------------------------------------------------------
(* main(), lines 65-94 *)

Init ==
    /\ pc = "start"
    /\ COLOR_MODE \in Modes
    /\ hashSecret \in (IF COLOR_MODE = "random" THEN HashSecrets ELSE {0})
    /\ link_map \in LinkMaps
    /\ csv_file \in (IF COLOR_MODE = "csv" THEN RunCsvFiles ELSE {NoCsv})
    /\ csv_colors = None
    /\ li = 1 /\ vi = 0
    /\ files = EmptyMap
    /\ all_points = <<>> /\ all_colors = <<>>
    /\ cur = None
    /\ visited = <<>>
    /\ combined = None
    /\ log = {}
    /\ console = ""
    /\ uncaught = ""
    /\ calls = EmptyMap /\ ret = None /\ procs = 1

(* URDF.load raises: lines 74-78 *)
LoadUrdfFails ==
    /\ pc = "start"
    /\ pc' = "aborted"
    /\ log' = log \cup {"[ERROR] Failed to load URDF"}
    /\ UNCHANGED <<COLOR_MODE, hashSecret, link_map, csv_file, csv_colors, li, vi,
                   files, all_points, all_colors, cur, visited, combined, console, uncaught>>
    /\ UNCHANGED harnessVars

(* URDF.load returns: lines 74-83 *)
LoadUrdfOk ==
    /\ pc = "start"
    /\ pc' = IF COLOR_MODE = "csv" THEN "csv" ELSE "cfg"
    /\ UNCHANGED <<COLOR_MODE, hashSecret, link_map, csv_file, csv_colors, li, vi,
                   files, all_points, all_colors, cur, visited, combined, log, console, uncaught>>
    /\ UNCHANGED harnessVars

(* lines 84-88 *)
LoadCsv ==
    /\ pc = "csv"
    /\ LET loaded == load_colors_from_csv(csv_file)
       IN  /\ csv_colors' = loaded.colors
           /\ log' = log \cup (IF loaded.warn
                               THEN {"[WARN] Failed to load CSV colors"} ELSE {})
    /\ pc' = "cfg"
    /\ UNCHANGED <<COLOR_MODE, hashSecret, link_map, csv_file, li, vi,
                   files, all_points, all_colors, cur, visited, combined, console, uncaught>>
    /\ UNCHANGED harnessVars

(* robot.update_cfg(cfg) takes a vector as long as the joints of the model *)
(* or as its actuated joints, and raises ValueError on any other           *)
update_cfg_raises(joints, n) == n # joints.all /\ n # joints.actuated

(* lines 91-94, a model without actuated joints *)
CfgNoJoints ==
    /\ pc = "cfg"
    /\ \E joints \in JointCounts : joints.actuated = 0
    /\ pc' = "loop"
    /\ UNCHANGED <<COLOR_MODE, hashSecret, link_map, csv_file, csv_colors, li, vi, files,
                   all_points, all_colors, cur, visited, combined, log, console, uncaught>>
    /\ UNCHANGED harnessVars

(* lines 91-94, the six values fit the model *)
UpdateCfg ==
    /\ pc = "cfg"
    /\ \E joints \in JointCounts :
          joints.actuated > 0 /\ ~update_cfg_raises(joints, CfgLen)
    /\ pc' = "loop"
    /\ UNCHANGED <<COLOR_MODE, hashSecret, link_map, csv_file, csv_colors, li, vi, files,
                   all_points, all_colors, cur, visited, combined, log, console, uncaught>>
    /\ UNCHANGED harnessVars

(* lines 91-93, the six values do not fit the model: the ValueError of     *)
(* update_cfg is caught nowhere                                            *)
UpdateCfgRaises ==
    /\ pc = "cfg"
    /\ \E joints \in JointCounts :
          joints.actuated > 0 /\ update_cfg_raises(joints, CfgLen)
    /\ pc' = "crashed"
    /\ uncaught' = "ValueError at line 93"
    /\ UNCHANGED <<COLOR_MODE, hashSecret, link_map, csv_file, csv_colors, li, vi, files,
                   all_points, all_colors, cur, visited, combined, log, console>>
    /\ UNCHANGED harnessVars

-----------------------------------------------------------------------------
(* The loop over links and visuals, lines 100-186 *)

InLoop == pc = "loop" /\ li <= Len(link_map)

link_name == link_map[li].name
nvisuals == link_map[li].nvis

AtVisual == InLoop /\ nvisuals > 0

(* the next iteration: the next visual of the link, or the next link *)
Continue ==
    IF vi + 1 < nvisuals
    THEN li' = li /\ vi' = vi + 1
    ELSE li' = li + 1 /\ vi' = 0

Visit(file, appended) ==
    visited' = Append(visited, [link |-> link_name, idx |-> vi,
                                file |-> file, appended |-> appended])

(* the visual is left with a line on the console, nothing written and     *)
(* nothing accumulated                                                     *)
Skip(line) ==
    /\ Visit("", FALSE)
    /\ Continue
    /\ console' = line
    /\ UNCHANGED <<pc, COLOR_MODE, hashSecret, link_map, csv_file, csv_colors, files,
                   all_points, all_colors, cur, combined, log, uncaught>>
    /\ UNCHANGED harnessVars

(* lines 105-107: a link without visuals *)
LinkNoVisuals ==
    /\ InLoop /\ nvisuals = 0
    /\ li' = li + 1 /\ vi' = 0
    /\ console' = "No visual geometry"
    /\ UNCHANGED <<pc, COLOR_MODE, hashSecret, link_map, csv_file, csv_colors, files,
                   all_points, all_colors, cur, visited, combined, log, uncaught>>
    /\ UNCHANGED harnessVars

(* lines 110-113: the geometry of the visual is no mesh *)
VisualNoMesh == AtVisual /\ Skip("No mesh geometry")

(* lines 116-125: mesh_path.exists() is false *)
VisualMissing == AtVisual /\ Skip("[WARN] Missing")

(* line 123: mesh_path.exists() raises OSError (a name the file system     *)
(* refuses, a directory that may not be searched); nothing catches it      *)
VisualStatRaises ==
    /\ AtVisual
    /\ pc' = "crashed"
    /\ uncaught' = "OSError at line 123"
    /\ UNCHANGED <<COLOR_MODE, hashSecret, link_map, csv_file, csv_colors, li, vi, files,
                   all_points, all_colors, cur, visited, combined, log, console>>
    /\ UNCHANGED harnessVars

(* lines 129-133: what was loaded is no Trimesh *)
VisualNotTrimesh == AtVisual /\ Skip("[WARN] Not a Trimesh")

(* lines 127-175, 182-186: a statement up to the export raises before the  *)
(* file exists (the mesh does not load, sampling fails, the export fails)  *)
VisualRaises == AtVisual /\ Skip("[ERROR]")

link_color == get_color_for_link(COLOR_MODE, hashSecret, link_name, csv_colors)

points == [link |-> link_name, idx |-> vi, rows |-> sample(POINT_SAMPLES)]

colors == tile(link_color, points.rows)

(* lines 171-175: the point cloud of the visual, exported *)
Exported ==
    Put(files, output_filename(link_name, vi, nvisuals),
        [rows |-> points.rows, colors |-> <<colors>>, by |-> <<link_name, vi>>])

(* lines 127-177, 182-186: the file is exported and a later statement of   *)
(* the try block raises (the print of line 177 on a console that cannot    *)
(* encode its check mark): the except clause skips the two appends         *)
VisualRaisesAfterExport ==
    /\ AtVisual
    /\ files' = Exported
    /\ Visit(output_filename(link_name, vi, nvisuals), FALSE)
    /\ Continue
    /\ console' = "[ERROR]"
    /\ UNCHANGED <<pc, COLOR_MODE, hashSecret, link_map, csv_file, csv_colors,
                   all_points, all_colors, cur, combined, log, uncaught>>
    /\ UNCHANGED harnessVars

(* lines 110-180: the visual is sampled, exported and accumulated; the     *)
(* points are kept by their number, and the transform that places them is  *)
(* the step Transform below                                                *)
VisualOk ==
    /\ AtVisual
    /\ files' = Exported
    /\ all_points' = Append(all_points, points)
    /\ all_colors' = Append(all_colors, colors)
    /\ Visit(output_filename(link_name, vi, nvisuals), TRUE)
    /\ Continue
    /\ console' = "Saved"
    /\ UNCHANGED <<pc, COLOR_MODE, hashSecret, link_map, csv_file, csv_colors,
                   cur, combined, log, uncaught>>
    /\ UNCHANGED harnessVars

-----------------------------------------------------------------------------
(* The combined cloud, lines 188-208 *)

RECURSIVE SumRows(_)
SumRows(blocks) ==
    IF blocks = <<>> THEN 0 ELSE blocks[1].rows + SumRows(Tail(blocks))

(* a test that takes the empty list for true as well *)
AlwaysTrue(list) == TRUE

(* `if all_points:', the truth value of a list *)
NonEmpty(list) == Len(list) > 0

Combine ==
    /\ pc = "loop" /\ li > Len(link_map)
    /\ IF NonEmpty(all_points)
       THEN /\ files' = Put(files, COMBINED_NAME,
                            [rows |-> SumRows(all_points), colors |-> all_colors,
                             by |-> <<"combined">>])
            /\ combined' = <<SumRows(all_points)>>
            /\ log' = log \cup {"Saved robot_complete.ply", "[DONE]"}
       ELSE /\ log' = log \cup {"[WARN] No points generated", "[DONE]"}
            /\ UNCHANGED <<files, combined>>
    /\ pc' = "done"
    /\ console' = ""
    /\ UNCHANGED <<COLOR_MODE, hashSecret, link_map, csv_file, csv_colors, li, vi,
                   all_points, all_colors, cur, visited, uncaught>>
    /\ UNCHANGED harnessVars

-----------------------------------------------------------------------------
(* The transform of one visual, lines 137-157, on its own *)

TransformInit ==
    /\ pc = "try"
    /\ cur \in {<<[link |-> n, origin |-> o, scale |-> sc, mesh |-> m,
                   combined_transform |-> None, mesh_transformed |-> None]>> :
                    n \in NameSet, o \in Origins, sc \in Scales, m \in Meshes}
    /\ COLOR_MODE = "custom" /\ hashSecret = 0
    /\ link_map = <<>> /\ csv_file = NoCsv /\ csv_colors = None
    /\ li = 1 /\ vi = 0
    /\ files = EmptyMap
    /\ all_points = <<>> /\ all_colors = <<>>
    /\ visited = <<>>
    /\ combined = None
    /\ log = {} /\ console = ""
    /\ uncaught = ""
    /\ calls = EmptyMap /\ ret = None /\ procs = 1

Transform ==
    /\ pc = "try"
    /\ LET vis == cur[1]
           T == CombinedTransform(get_transform(vis.link), vis.origin, vis.scale)
       IN  cur' = <<[vis EXCEPT !.combined_transform = T,
                                !.mesh_transformed = apply_transform(vis.mesh, T)]>>
    /\ pc' = "transformed"
    /\ UNCHANGED <<COLOR_MODE, hashSecret, link_map, csv_file, csv_colors, li, vi, files,
                   all_points, all_colors, visited, combined, log, console, uncaught>>
    /\ UNCHANGED harnessVars

TransformNext == Transform

SpecTransform == TransformInit /\ [][TransformNext]_vars

-----------------------------------------------------------------------------
(* get_color_for_link and load_colors_from_csv on their own: the table is  *)
(* loaded, then links are coloured, in one process after another           *)

ColorInit ==
    /\ COLOR_MODE \in Modes
    /\ hashSecret \in HashSecrets
    /\ csv_file \in (IF COLOR_MODE = "csv" THEN CsvFiles ELSE {NoCsv})
    /\ pc = IF COLOR_MODE = "csv" THEN "csv" ELSE "cfg"
    /\ csv_colors = None
    /\ link_map = <<>>
    /\ li = 1 /\ vi = 0
    /\ files = EmptyMap
    /\ all_points = <<>> /\ all_colors = <<>>
    /\ cur = None
    /\ visited = <<>>
    /\ combined = None
    /\ log = {} /\ console = ""
    /\ uncaught = ""
    /\ calls = EmptyMap /\ ret = None /\ procs = 1

(* line 162 *)
CallColor ==
    /\ pc = "cfg"
    /\ \E name \in NameSet :
          LET color == get_color_for_link(COLOR_MODE, hashSecret, name, csv_colors)
          IN  /\ ret' = <<[name |-> name, color |-> color]>>
              /\ calls' = IF name \in DOMAIN calls THEN calls ELSE Put(calls, name, color)
    /\ UNCHANGED procs
    /\ UNCHANGED <<COLOR_MODE, hashSecret, csv_file, csv_colors, cur>>
    /\ UNCHANGED runVars

(* the program is started again: the interpreter draws a new hash secret, *)
(* the configuration and the CSV file are the same                         *)
NewProcess ==
    /\ pc = "cfg"
    /\ procs < MaxProcs
    /\ procs' = procs + 1
    /\ hashSecret' \in HashSecrets
    /\ ret' = None
    /\ UNCHANGED calls
    /\ UNCHANGED <<COLOR_MODE, csv_file, csv_colors, cur>>
    /\ UNCHANGED runVars

ColorNext == LoadCsv \/ CallColor \/ NewProcess

SpecColor == ColorInit /\ [][ColorNext]_vars

-----------------------------------------------------------------------------

Next ==
    \/ LoadUrdfFails \/ LoadUrdfOk \/ LoadCsv
    \/ CfgNoJoints \/ UpdateCfg \/ UpdateCfgRaises
    \/ LinkNoVisuals
    \/ VisualNoMesh \/ VisualMissing \/ VisualStatRaises \/ VisualNotTrimesh
    \/ VisualRaises \/ VisualRaisesAfterExport \/ VisualOk
    \/ Combine

Spec == Init /\ [][Next]_vars

-----------------------------------------------------------------------------
(* Properties *)

RECURSIVE TotalVisuals(_)
TotalVisuals(links) ==
    IF links = <<>> THEN 0 ELSE links[1].nvis + TotalVisuals(Tail(links))

Wrote(i) == visited[i].file # ""
Appended(i) == visited[i].appended
IsCombined(f) == files[f].by = <<"combined">>
PerVisualFiles == {f \in DOMAIN files : ~IsCombined(f)}

(* C1: a visual that fails (no mesh file, no triangular mesh, an exception *)
(* while it is processed) writes no file and adds nothing to the buffers,  *)
(* every later visual and link is still processed, and no such failure     *)
(* ends the run.                                                           *)
C1_FailedVisualIsSkipped ==
    /\ uncaught # "OSError at line 123"
    /\ \A i \in DOMAIN visited : ~Appended(i) => ~Wrote(i)
    /\ pc = "done" => Len(visited) = TotalVisuals(link_map)

(* C2: every per-visual file holds exactly POINT_SAMPLES points, and the   *)
(* combined file, when written, holds as many points as the per-visual     *)
(* files of all the visuals that wrote one in this run.                    *)
C2_PointCounts ==
    /\ \A f \in PerVisualFiles : files[f].rows = POINT_SAMPLES
    /\ combined # None =>
          combined[1] = POINT_SAMPLES * Cardinality({i \in DOMAIN visited : Wrote(i)})

(* C3: a model that does not load ends the run with an error and no        *)
(* output, no visual processed; a model that loads never ends the run      *)
(* before its final step, whatever it holds.                               *)
C3_OnlyLoadFailureAborts ==
    /\ pc = "aborted" =>
          /\ "[ERROR] Failed to load URDF" \in log
          /\ files = EmptyMap /\ visited = <<>> /\ combined = None
    /\ pc # "crashed"

(* C4: at the end of a run the combined file has been written exactly when *)
(* some visual added points to the buffers; when none did, it is not       *)
(* written, the warning is printed and the per-visual files written in the *)
(* run are still there.                                                    *)
C4_CombinedIffPoints ==
    pc = "done" =>
        /\ combined # None <=> \E i \in DOMAIN visited : Appended(i)
        /\ combined # None <=> (COMBINED_NAME \in DOMAIN files /\ IsCombined(COMBINED_NAME))
        /\ combined = None =>
              /\ "[WARN] No points generated" \in log
              /\ \A i \in DOMAIN visited :
                    Wrote(i) => visited[i].file \in PerVisualFiles

C4_Witness ==
    /\ pc = "done"
    /\ combined = None
    /\ \E i \in DOMAIN visited : Wrote(i)

(* C5: get_color_for_link returns, for a link name, the colour it returned *)
(* for that name before: in the same process and in an earlier run of the  *)
(* program alike.                                                          *)
C5_ColorIsFunctionOfName ==
    ret # None => ret[1].color = calls[ret[1].name]

(* C6: when the CSV table fails to load, the run goes on with an empty     *)
(* table and every link is coloured gray.                                  *)
C6_CsvFailureGivesGray ==
    "[WARN] Failed to load CSV colors" \in log =>
        /\ DOMAIN csv_colors = {}
        /\ \A i \in DOMAIN all_colors : all_colors[i].rgb = GRAY
        /\ \A f \in PerVisualFiles : files[f].colors[1].rgb = GRAY

(* the diagonal matrix of a scale vector *)
Diag(scale) ==
    [i \in 1..4 |-> [j \in 1..4 |->
        IF i # j THEN 0 ELSE IF i <= 3 THEN scale[i] ELSE 1]]

LVS(vis) ==
    MatMul(MatMul(get_transform(vis.link),
                  IF vis.origin = None THEN Eye4 ELSE vis.origin),
           IF vis.scale = None THEN Eye4 ELSE Diag(vis.scale))

(* C7: the transform applied to the vertices of a visual is L . V . S,     *)
(* with V the identity when the visual has no origin and S the identity    *)
(* when the mesh has no scale.                                             *)
C7_TransformIsLVS ==
    pc = "transformed" =>
        /\ cur[1].combined_transform = LVS(cur[1])
        /\ cur[1].mesh_transformed = apply_transform(cur[1].mesh, LVS(cur[1]))

C7_Witness ==
    /\ pc = "transformed"
    /\ cur[1].link = "L1_0"
    /\ cur[1].origin = RotY
    /\ cur[1].scale = <<2, 3, 5>>
    /\ cur[1].mesh_transformed[2] # cur[1].mesh[2]

(* C8: two visuals that were processed to the end wrote files of          *)
(* different names, none of them the name of the combined file, and no     *)
(* later output replaced the file of either: the output holds one          *)
(* per-visual file for each of them.                                       *)
C8_OneFilePerVisual ==
    /\ \A i, j \in DOMAIN visited :
          i # j /\ Appended(i) /\ Appended(j) => visited[i].file # visited[j].file
    /\ \A i \in DOMAIN visited : Appended(i) => visited[i].file # COMBINED_NAME
    /\ \A i \in DOMAIN visited :
          Appended(i) => files[visited[i].file].by = <<visited[i].link, visited[i].idx>>

(* c is the integer nearest to 255 * n/d, as a channel *)
Nearest(c, v) ==
    /\ c \in 0..255
    /\ 2 * (c * v[2] - 255 * v[1]) <= v[2]
    /\ 2 * (255 * v[1] - c * v[2]) <= v[2]

(* row i of the file was read and stored, no later row replaced it *)
Stored(f, i) ==
    /\ f.exists
    /\ \A k \in 1..i : ~RowRaises(f, f.rows[k])
    /\ \A k \in DOMAIN f.rows :
          k > i /\ f.rows[k].name = f.rows[i].name => \E m \in 1..k : RowRaises(f, f.rows[m])

(* C9: the colour stored for a CSV row has each channel equal to the       *)
(* channel value times 255, rounded to the nearest integer.                *)
C9_ChannelsRounded ==
    (pc = "cfg" /\ COLOR_MODE = "csv") =>
        \A i \in DOMAIN csv_file.rows :
            Stored(csv_file, i) =>
                LET row == csv_file.rows[i]
                    c == csv_colors[row.name]
                IN  Nearest(c[1], row.r) /\ Nearest(c[2], row.g) /\ Nearest(c[3], row.b)

RECURSIVE Accumulated(_)
Accumulated(v) ==
    IF v = <<>> THEN <<>>
    ELSE IF v[1].appended
         THEN <<<<v[1].link, v[1].idx>>>> \o Accumulated(Tail(v))
         ELSE Accumulated(Tail(v))

ColorOf(name) == get_color_for_link(COLOR_MODE, hashSecret, name, csv_colors)

(* C10: the two buffers hold the same number of blocks, block by block of  *)
(* the same number of rows, in the order the visuals were processed; every *)
(* block, every per-visual file and the combined cloud carry for each      *)
(* point the one colour of the link it was sampled from.                   *)
C10_BuffersAligned ==
    /\ Len(all_points) = Len(all_colors)
    /\ [i \in DOMAIN all_points |-> <<all_points[i].link, all_points[i].idx>>]
          = Accumulated(visited)
    /\ \A i \in DOMAIN all_points :
          /\ all_colors[i].rows = all_points[i].rows
          /\ all_colors[i].rgb = ColorOf(all_points[i].link)
    /\ \A f \in PerVisualFiles :
          files[f].colors = <<[rgb |-> ColorOf(files[f].by[1]), rows |-> files[f].rows]>>
    /\ \A f \in DOMAIN files :
          IsCombined(f) =>
              /\ files[f].colors = all_colors
              /\ files[f].rows = SumRows(all_colors)

C10_Witness ==
    /\ pc = "done"
    /\ Len(all_points) >= 2
    /\ all_points[1].link # all_points[2].link
    /\ all_colors[1].rgb # all_colors[2].rgb
    /\ combined # None

====
